---- MODULE Spec2Model ----
(***************************************************************************)
(* Asset-transfer chaincode (src/chaincode/smartcontract.go).              *)
(*                                                                         *)
(* The world state is a map from keys to JSON documents.  Every exported   *)
(* method of SmartContract is an operator from a transaction context (the  *)
(* world state, the log of stub calls issued so far, and the position of   *)
(* the stub call that fails, if any) to a result; one action per method    *)
(* runs the whole method as one invocation and commits its writes.         *)
(***************************************************************************)
EXTENDS Integers, Sequences, FiniteSets, TLC

VARIABLES
    store,  \* world state: key -> stored JSON document, or Absent
    last,   \* the last invocation: method, arguments, world state before it, stub calls, results
    ops     \* number of invocations so far

vars == <<store, last, ops>>

\* Bound on the number of invocations in a run.
MaxOps == 3

(***************************************************************************)
(* JSON documents.  A document is what a []byte holds: nothing (nil), text *)
(* that is not JSON, the literal null, a top-level value that is not an    *)
(* object, or an object: a map from member names to values.  A value       *)
(* carries its JSON type.                                                  *)
(***************************************************************************)
JString(s) == [t |-> "string", s |-> s, n |-> 0]
JNumber(n) == [t |-> "number", s |-> "", n |-> n]
JNull == [t |-> "null", s |-> "", n |-> 0]

NoFields == [x \in {} |-> JNull]
Absent == [kind |-> "nil", fields |-> NoFields]
InvalidJSON == [kind |-> "invalid", fields |-> NoFields]
NullJSON == [kind |-> "null", fields |-> NoFields]
ScalarJSON == [kind |-> "scalar", fields |-> NoFields]
Obj(f) == [kind |-> "object", fields |-> f]

\* The json tags of struct Asset, and the Go type each one decodes into.
FieldNames == {"asset_id", "color", "size", "owner", "appraisedValue"}
StringFields == {"asset_id", "color", "owner"}
IntFields == {"size", "appraisedValue"}

NewAsset(id, color, size, owner, value) ==
    [ID |-> id, Color |-> color, Size |-> size, Owner |-> owner, AppraisedValue |-> value]

\* var x Asset
ZeroAsset == NewAsset("", "", 0, "", 0)

\* Errors: the kind of failure and the asset id the message names ("" when none).
Err(kind, id) == [kind |-> kind, id |-> id]
NoErr == Err("nil", "")

\* Marshal with the json tags of Size and AppraisedValue exchanged.
Marshal_SwappedTags(a) ==
    Obj([n \in FieldNames |->
            CASE n = "asset_id" -> JString(a.ID)
              [] n = "color" -> JString(a.Color)
              [] n = "size" -> JNumber(a.AppraisedValue)
              [] n = "owner" -> JString(a.Owner)
              [] n = "appraisedValue" -> JNumber(a.Size)])

\* Marshal that writes the id under the member name "ID" instead of "asset_id".
Marshal_OldIdTag(a) ==
    Obj([n \in (FieldNames \ {"asset_id"}) \cup {"ID"} |->
            CASE n = "ID" -> JString(a.ID)
              [] n = "color" -> JString(a.Color)
              [] n = "size" -> JNumber(a.Size)
              [] n = "owner" -> JString(a.Owner)
              [] n = "appraisedValue" -> JNumber(a.AppraisedValue)])

\* Marshal with the tag `json:"size,string"`: the size written as a quoted number.
Marshal_SizeQuoted(a) ==
    Obj([n \in FieldNames |->
            CASE n = "asset_id" -> JString(a.ID)
              [] n = "color" -> JString(a.Color)
              [] n = "size" -> [t |-> "string", s |-> "", n |-> a.Size]
              [] n = "owner" -> JString(a.Owner)
              [] n = "appraisedValue" -> JNumber(a.AppraisedValue)])

\* json.Marshal(asset): an object with all five members (no omitempty).
Marshal(a) ==
    Obj([n \in FieldNames |->
            CASE n = "asset_id" -> JString(a.ID)
              [] n = "color" -> JString(a.Color)
              [] n = "size" -> JNumber(a.Size)
              [] n = "owner" -> JString(a.Owner)
              [] n = "appraisedValue" -> JNumber(a.AppraisedValue)])

\* Unmarshal that skips a member of the wrong type instead of reporting it.
Unmarshal_Lenient(data) ==
    IF data.kind # "object" THEN [err |-> NoErr, v |-> ZeroAsset]
    ELSE
        LET f == data.fields
            Has(n, t) == n \in DOMAIN f /\ f[n].t = t
            StrOf(n) == IF Has(n, "string") THEN f[n].s ELSE ""
            IntOf(n) == IF Has(n, "number") THEN f[n].n ELSE 0
        IN  [err |-> NoErr,
             v |-> NewAsset(StrOf("asset_id"), StrOf("color"), IntOf("size"),
                            StrOf("owner"), IntOf("appraisedValue"))]

\* json.Unmarshal(data, &x) into a zero Asset: a syntax error for text that is
\* not JSON (and for no text at all), nothing for null, a type error for a
\* top-level value that is no object; in an object a member that is absent or
\* null leaves its field zero, a member of the right type sets it, and a member
\* of another type is a type error.
Unmarshal(data) ==
    IF data.kind = "null" THEN [err |-> NoErr, v |-> ZeroAsset]
    ELSE IF data.kind # "object" THEN [err |-> Err("DecodeError", ""), v |-> ZeroAsset]
    ELSE
        LET f == data.fields
            Has(n, t) == n \in DOMAIN f /\ f[n].t = t
            Bad(n, t) == n \in DOMAIN f /\ f[n].t \notin {t, "null"}
            StrOf(n) == IF Has(n, "string") THEN f[n].s ELSE ""
            IntOf(n) == IF Has(n, "number") THEN f[n].n ELSE 0
        IN  [err |-> IF \/ \E n \in StringFields : Bad(n, "string")
                        \/ \E n \in IntFields : Bad(n, "number")
                     THEN Err("DecodeError", "")
                     ELSE NoErr,
             v |-> NewAsset(StrOf("asset_id"), StrOf("color"), IntOf("size"),
                            StrOf("owner"), IntOf("appraisedValue"))]

(***************************************************************************)
(* The stub.  A context carries the world state the invocation works on,   *)
(* the calls it has issued, and failAt: the position of the call that      *)
(* returns an error (0: none does).                                        *)
(***************************************************************************)
SeedAssets ==
    << NewAsset("asset1", "blue", 5, "Tomoko", 300),
       NewAsset("asset2", "red", 5, "Brad", 400),
       NewAsset("asset3", "green", 10, "Jin Soo", 500),
       NewAsset("asset4", "yellow", 10, "Max", 600),
       NewAsset("asset5", "black", 15, "Adriana", 700),
       NewAsset("asset6", "white", 15, "Michel", 800) >>

SeedIds == {SeedAssets[i].ID : i \in 1..Len(SeedAssets)}

\* The ids a request names; a request without asset_id names "".
RequestIds == {"asset1", "asset7"}

\* The store's native key order.
KeyOrder == <<"", "asset1", "asset2", "asset3", "asset4", "asset5", "asset6", "asset7">>
Keys == {KeyOrder[i] : i \in 1..Len(KeyOrder)}

NewCtx(st, failAt) == [store |-> st, calls |-> <<>>, failAt |-> failAt]

Call(fn, key, ok) == [fn |-> fn, key |-> key, ok |-> ok]

\* Whether the call the context issues next succeeds.
NextOk(ctx) == Len(ctx.calls) + 1 # ctx.failAt

Logged(ctx, fn, key) == [ctx EXCEPT !.calls = Append(@, Call(fn, key, NextOk(ctx)))]

\* ctx.GetStub().GetState(key): the value, nil when the key is absent.
GetState(ctx, key) ==
    [ctx |-> Logged(ctx, "GetState", key),
     val |-> IF NextOk(ctx) THEN ctx.store[key] ELSE Absent,
     err |-> IF NextOk(ctx) THEN NoErr ELSE Err("StoreError", "")]

\* ctx.GetStub().PutState(key, value)
PutState(ctx, key, value) ==
    [ctx |-> IF NextOk(ctx)
             THEN [Logged(ctx, "PutState", key) EXCEPT !.store[key] = value]
             ELSE Logged(ctx, "PutState", key),
     err |-> IF NextOk(ctx) THEN NoErr ELSE Err("StoreError", "")]

\* ctx.GetStub().DelState(key)
DelState(ctx, key) ==
    [ctx |-> IF NextOk(ctx)
             THEN [Logged(ctx, "DelState", key) EXCEPT !.store[key] = Absent]
             ELSE Logged(ctx, "DelState", key),
     err |-> IF NextOk(ctx) THEN NoErr ELSE Err("StoreError", "")]

\* What a method returns: the context it leaves, the error, and the value of
\* its kind (a status string, an asset, a boolean, a list of assets).
Result(ctx, err) ==
    [ctx |-> ctx, err |-> err, status |-> "", asset |-> ZeroAsset,
     exists |-> FALSE, assets |-> <<>>]

(***************************************************************************)
(* The methods of SmartContract.                                           *)
(***************************************************************************)

\* InitLedger's loop with the last seed asset left out (an off-by-one bound).
RECURSIVE InitFrom_OffByOne(_, _)
InitFrom_OffByOne(ctx, i) ==
    IF i >= Len(SeedAssets) THEN Result(ctx, NoErr)
    ELSE
        LET asset == SeedAssets[i]
            p == PutState(ctx, asset.ID, Marshal(asset))
        IN  IF p.err # NoErr THEN Result(p.ctx, Err("StoreError", ""))
            ELSE InitFrom_OffByOne(p.ctx, i + 1)

\* InitLedger's loop that leaves a key alone when it already holds a record.
RECURSIVE InitFrom_SkipExisting(_, _)
InitFrom_SkipExisting(ctx, i) ==
    IF i > Len(SeedAssets) THEN Result(ctx, NoErr)
    ELSE
        LET asset == SeedAssets[i]
            p == PutState(ctx, asset.ID, Marshal(asset))
        IN  IF ctx.store[asset.ID] # Absent THEN InitFrom_SkipExisting(ctx, i + 1)
            ELSE IF p.err # NoErr THEN Result(p.ctx, Err("StoreError", ""))
            ELSE InitFrom_SkipExisting(p.ctx, i + 1)

\* InitLedger's loop from the i-th seed asset on.
RECURSIVE InitFrom(_, _)
InitFrom(ctx, i) ==
    IF i > Len(SeedAssets) THEN Result(ctx, NoErr)
    ELSE
        LET asset == SeedAssets[i]
            p == PutState(ctx, asset.ID, Marshal(asset))
        IN  IF p.err # NoErr THEN Result(p.ctx, Err("StoreError", ""))
            ELSE InitFrom(p.ctx, i + 1)

InitLedger(ctx) == InitFrom(ctx, 1)

\* AssetExists that takes a GetState error for "not stored".
AssetExists_SwallowErr(ctx, id) ==
    LET g == GetState(ctx, id)
    IN  [Result(g.ctx, NoErr) EXCEPT !.exists = (g.val # Absent)]

AssetExists(ctx, id) ==
    LET g == GetState(ctx, id)
    IN  IF g.err # NoErr THEN Result(g.ctx, Err("StoreError", ""))
        ELSE [Result(g.ctx, NoErr) EXCEPT !.exists = (g.val # Absent)]

\* CreateAsset without the existence check: an upsert.
CreateAsset_NoExistsCheck(ctx, raw) ==
    LET u == Unmarshal(raw)
        req == u.v
        e == AssetExists(ctx, req.ID)
        p == PutState(e.ctx, req.ID, Marshal(req))
    IN  IF u.err # NoErr THEN Result(ctx, u.err)
        ELSE IF e.err # NoErr THEN Result(e.ctx, e.err)
        ELSE IF p.err # NoErr THEN Result(p.ctx, p.err)
        ELSE [Result(p.ctx, NoErr) EXCEPT !.status = "CreateAsset OK"]

CreateAsset(ctx, raw) ==
    LET u == Unmarshal(raw)
        req == u.v
        e == AssetExists(ctx, req.ID)
        p == PutState(e.ctx, req.ID, Marshal(req))
    IN  IF u.err # NoErr THEN Result(ctx, u.err)
        ELSE IF e.err # NoErr THEN Result(e.ctx, e.err)
        ELSE IF e.exists THEN Result(e.ctx, Err("AlreadyExists", req.ID))
        ELSE IF p.err # NoErr THEN Result(p.ctx, p.err)
        ELSE [Result(p.ctx, NoErr) EXCEPT !.status = "CreateAsset OK"]

\* ReadAsset that reads the world state before it looks at the decode error.
ReadAsset_GetBeforeErrCheck(ctx, raw) ==
    LET u == Unmarshal(raw)
        req == u.v
        g == GetState(ctx, req.ID)
        a == Unmarshal(g.val)
    IN  IF g.err # NoErr THEN Result(g.ctx, Err("StoreError", ""))
        ELSE IF u.err # NoErr THEN Result(g.ctx, u.err)
        ELSE IF g.val = Absent THEN Result(g.ctx, Err("NotFound", req.ID))
        ELSE IF a.err # NoErr THEN Result(g.ctx, a.err)
        ELSE [Result(g.ctx, NoErr) EXCEPT !.asset = a.v]

ReadAsset(ctx, raw) ==
    LET u == Unmarshal(raw)
        req == u.v
        g == GetState(ctx, req.ID)
        a == Unmarshal(g.val)
    IN  IF u.err # NoErr THEN Result(ctx, u.err)
        ELSE IF g.err # NoErr THEN Result(g.ctx, Err("StoreError", ""))
        ELSE IF g.val = Absent THEN Result(g.ctx, Err("NotFound", req.ID))
        ELSE IF a.err # NoErr THEN Result(g.ctx, a.err)
        ELSE [Result(g.ctx, NoErr) EXCEPT !.asset = a.v]

\* UpdateAsset without the existence check: an upsert.
UpdateAsset_Upsert(ctx, raw) ==
    LET u == Unmarshal(raw)
        req == u.v
        e == AssetExists(ctx, req.ID)
        p == PutState(e.ctx, req.ID, Marshal(req))
    IN  IF u.err # NoErr THEN Result(ctx, u.err)
        ELSE IF e.err # NoErr THEN Result(e.ctx, e.err)
        ELSE IF p.err # NoErr THEN Result(p.ctx, p.err)
        ELSE [Result(p.ctx, NoErr) EXCEPT !.status = "UpdateAsset OK"]

\* UpdateAsset that keeps the stored value of every field the request leaves zero.
UpdateAsset_Merge(ctx, raw) ==
    LET u == Unmarshal(raw)
        req == u.v
        e == AssetExists(ctx, req.ID)
        old == Unmarshal(ctx.store[req.ID]).v
        merged == NewAsset(req.ID,
                           IF req.Color = "" THEN old.Color ELSE req.Color,
                           IF req.Size = 0 THEN old.Size ELSE req.Size,
                           IF req.Owner = "" THEN old.Owner ELSE req.Owner,
                           IF req.AppraisedValue = 0 THEN old.AppraisedValue
                           ELSE req.AppraisedValue)
        p == PutState(e.ctx, req.ID, Marshal(merged))
    IN  IF u.err # NoErr THEN Result(ctx, u.err)
        ELSE IF e.err # NoErr THEN Result(e.ctx, e.err)
        ELSE IF ~e.exists THEN Result(e.ctx, Err("NotFound", req.ID))
        ELSE IF p.err # NoErr THEN Result(p.ctx, p.err)
        ELSE [Result(p.ctx, NoErr) EXCEPT !.status = "UpdateAsset OK"]

UpdateAsset(ctx, raw) ==
    LET u == Unmarshal(raw)
        req == u.v
        e == AssetExists(ctx, req.ID)
        p == PutState(e.ctx, req.ID, Marshal(req))
    IN  IF u.err # NoErr THEN Result(ctx, u.err)
        ELSE IF e.err # NoErr THEN Result(e.ctx, e.err)
        ELSE IF ~e.exists THEN Result(e.ctx, Err("NotFound", req.ID))
        ELSE IF p.err # NoErr THEN Result(p.ctx, p.err)
        ELSE [Result(p.ctx, NoErr) EXCEPT !.status = "UpdateAsset OK"]

\* DeleteAsset that deletes first and checks existence afterwards.
DeleteAsset_DeleteFirst(ctx, raw) ==
    LET u == Unmarshal(raw)
        req == u.v
        d == DelState(ctx, req.ID)
        e == AssetExists(d.ctx, req.ID)
    IN  IF u.err # NoErr THEN Result(ctx, u.err)
        ELSE IF d.err # NoErr THEN Result(d.ctx, d.err)
        ELSE IF e.err # NoErr THEN Result(e.ctx, e.err)
        ELSE IF ~e.exists THEN Result(e.ctx, Err("NotFound", req.ID))
        ELSE [Result(e.ctx, NoErr) EXCEPT !.status = "CreateAsset OK"]

\* DeleteAsset that reports success without calling DelState.
DeleteAsset_NoDel(ctx, raw) ==
    LET u == Unmarshal(raw)
        req == u.v
        e == AssetExists(ctx, req.ID)
    IN  IF u.err # NoErr THEN Result(ctx, u.err)
        ELSE IF e.err # NoErr THEN Result(e.ctx, e.err)
        ELSE IF ~e.exists THEN Result(e.ctx, Err("NotFound", req.ID))
        ELSE [Result(e.ctx, NoErr) EXCEPT !.status = "CreateAsset OK"]

\* DeleteAsset with a status string of its own.
DeleteAsset_OwnStatus(ctx, raw) ==
    LET u == Unmarshal(raw)
        req == u.v
        e == AssetExists(ctx, req.ID)
        d == DelState(e.ctx, req.ID)
    IN  IF u.err # NoErr THEN Result(ctx, u.err)
        ELSE IF e.err # NoErr THEN Result(e.ctx, e.err)
        ELSE IF ~e.exists THEN Result(e.ctx, Err("NotFound", req.ID))
        ELSE IF d.err # NoErr THEN Result(d.ctx, d.err)
        ELSE [Result(d.ctx, NoErr) EXCEPT !.status = "DeleteAsset OK"]

DeleteAsset(ctx, raw) ==
    LET u == Unmarshal(raw)
        req == u.v
        e == AssetExists(ctx, req.ID)
        d == DelState(e.ctx, req.ID)
    IN  IF u.err # NoErr THEN Result(ctx, u.err)
        ELSE IF e.err # NoErr THEN Result(e.ctx, e.err)
        ELSE IF ~e.exists THEN Result(e.ctx, Err("NotFound", req.ID))
        ELSE IF d.err # NoErr THEN Result(d.ctx, d.err)
        ELSE [Result(d.ctx, NoErr) EXCEPT !.status = "CreateAsset OK"]

\* TransferAsset that writes back the decoded request instead of the stored record.
TransferAsset_FromRequest(ctx, raw) ==
    LET u == Unmarshal(raw)
        req == u.v
        e == AssetExists(ctx, req.ID)
        r == ReadAsset(e.ctx, raw)
        p == PutState(r.ctx, req.ID, Marshal(req))
    IN  IF u.err # NoErr THEN Result(ctx, u.err)
        ELSE IF e.err # NoErr THEN Result(e.ctx, e.err)
        ELSE IF ~e.exists THEN Result(e.ctx, Err("NotFound", req.ID))
        ELSE IF r.err # NoErr THEN Result(r.ctx, r.err)
        ELSE IF p.err # NoErr THEN Result(p.ctx, p.err)
        ELSE [Result(p.ctx, NoErr) EXCEPT !.status = "TransferAsset OK"]

\* TransferAsset that puts the record under the request's owner instead of its id.
TransferAsset_KeyFromOwner(ctx, raw) ==
    LET u == Unmarshal(raw)
        req == u.v
        e == AssetExists(ctx, req.ID)
        r == ReadAsset(e.ctx, raw)
        asset == [r.asset EXCEPT !.Owner = req.Owner]
        key == IF req.Owner \in Keys THEN req.Owner ELSE req.ID
        p == PutState(r.ctx, key, Marshal(asset))
    IN  IF u.err # NoErr THEN Result(ctx, u.err)
        ELSE IF e.err # NoErr THEN Result(e.ctx, e.err)
        ELSE IF ~e.exists THEN Result(e.ctx, Err("NotFound", req.ID))
        ELSE IF r.err # NoErr THEN Result(r.ctx, r.err)
        ELSE IF p.err # NoErr THEN Result(p.ctx, p.err)
        ELSE [Result(p.ctx, NoErr) EXCEPT !.status = "TransferAsset OK"]

TransferAsset(ctx, raw) ==
    LET u == Unmarshal(raw)
        req == u.v
        e == AssetExists(ctx, req.ID)
        r == ReadAsset(e.ctx, raw)
        asset == [r.asset EXCEPT !.Owner = req.Owner]
        p == PutState(r.ctx, req.ID, Marshal(asset))
    IN  IF u.err # NoErr THEN Result(ctx, u.err)
        ELSE IF e.err # NoErr THEN Result(e.ctx, e.err)
        ELSE IF ~e.exists THEN Result(e.ctx, Err("NotFound", req.ID))
        ELSE IF r.err # NoErr THEN Result(r.ctx, r.err)
        ELSE IF p.err # NoErr THEN Result(p.ctx, p.err)
        ELSE [Result(p.ctx, NoErr) EXCEPT !.status = "TransferAsset OK"]

\* The keys the open-ended range scan yields, in the store's order.
RECURSIVE ScanKeys(_, _)
ScanKeys(st, i) ==
    IF i > Len(KeyOrder) THEN <<>>
    ELSE IF st[KeyOrder[i]] # Absent THEN <<KeyOrder[i]>> \o ScanKeys(st, i + 1)
    ELSE ScanKeys(st, i + 1)

\* GetAllAssets's loop with one asset variable shared by all iterations, so that
\* every pointer in the list ends up at the asset decoded last.
RECURSIVE ScanFrom_AliasedAsset(_, _, _)
ScanFrom_AliasedAsset(ctx, keys, assets) ==
    IF keys = <<>> THEN [Result(ctx, NoErr) EXCEPT !.assets = assets]
    ELSE
        LET key == Head(keys)
            nx == Logged(ctx, "Next", key)
            a == Unmarshal(ctx.store[key])
        IN  IF ~NextOk(ctx) THEN Result(nx, Err("StoreError", ""))
            ELSE IF a.err # NoErr THEN Result(nx, a.err)
            ELSE ScanFrom_AliasedAsset(nx, Tail(keys), [i \in 1..(Len(assets) + 1) |-> a.v])

\* GetAllAssets's loop returning what it has accumulated together with the error.
RECURSIVE ScanFrom_PartialOnError(_, _, _)
ScanFrom_PartialOnError(ctx, keys, assets) ==
    IF keys = <<>> THEN [Result(ctx, NoErr) EXCEPT !.assets = assets]
    ELSE
        LET key == Head(keys)
            nx == Logged(ctx, "Next", key)
            a == Unmarshal(ctx.store[key])
        IN  IF ~NextOk(ctx) THEN [Result(nx, Err("StoreError", "")) EXCEPT !.assets = assets]
            ELSE IF a.err # NoErr THEN [Result(nx, a.err) EXCEPT !.assets = assets]
            ELSE ScanFrom_PartialOnError(nx, Tail(keys), Append(assets, a.v))

\* GetAllAssets's loop: keys are those the iterator has not yielded yet.
RECURSIVE ScanFrom(_, _, _)
ScanFrom(ctx, keys, assets) ==
    IF keys = <<>> THEN [Result(ctx, NoErr) EXCEPT !.assets = assets]
    ELSE
        LET key == Head(keys)
            nx == Logged(ctx, "Next", key)
            a == Unmarshal(ctx.store[key])
        IN  IF ~NextOk(ctx) THEN Result(nx, Err("StoreError", ""))
            ELSE IF a.err # NoErr THEN Result(nx, a.err)
            ELSE ScanFrom(nx, Tail(keys), Append(assets, a.v))

\* GetAllAssets that closes the iterator after the loop instead of deferring it.
GetAllAssets_CloseAfterLoop(ctx) ==
    LET it == Logged(ctx, "GetStateByRange", "")
        r == ScanFrom(it, ScanKeys(ctx.store, 1), <<>>)
    IN  IF ~NextOk(ctx) THEN Result(it, Err("StoreError", ""))
        ELSE IF r.err # NoErr THEN r
        ELSE [r EXCEPT !.ctx = Logged(r.ctx, "Close", "")]

GetAllAssets(ctx) ==
    LET it == Logged(ctx, "GetStateByRange", "")
        r == ScanFrom(it, ScanKeys(ctx.store, 1), <<>>)
    IN  IF ~NextOk(ctx) THEN Result(it, Err("StoreError", ""))
        ELSE [r EXCEPT !.ctx = Logged(r.ctx, "Close", "")]   \* defer resultsIterator.Close()

(***************************************************************************)
(* Requests.  The payloads a client sends: the documented request shapes   *)
(* (asset_id alone, asset_id with owner, all five members), the literal    *)
(* null, and payloads that are not JSON, not an object, or carry a member  *)
(* of the wrong type.                                                      *)
(***************************************************************************)
Shapes == {{"asset_id"}, {"asset_id", "owner"}, FieldNames}

RequestValue(n, id) ==
    CASE n = "asset_id" -> JString(id)
      [] n = "color" -> JString("red")
      [] n = "size" -> JNumber(7)
      [] n = "owner" -> JString("Bob")
      [] n = "appraisedValue" -> JNumber(900)

WellTyped == {Obj([n \in S |-> RequestValue(n, id)]) : S \in Shapes, id \in RequestIds}

IllTyped ==
    { InvalidJSON, ScalarJSON,
      Obj([n \in FieldNames |-> IF n = "size" THEN JString("7") ELSE RequestValue(n, "asset1")]) }

Requests == WellTyped \cup IllTyped \cup {NullJSON}

\* The positions at which a stub call of a method can fail (0: none fails).
FailPoints(n) == 0..n

(***************************************************************************)
(* Invocations.                                                            *)
(***************************************************************************)
NoLast ==
    [op |-> "none", req |-> Absent, id |-> "", pre |-> [k \in Keys |-> Absent],
     calls |-> <<>>, err |-> NoErr, status |-> "", asset |-> ZeroAsset,
     exists |-> FALSE, assets |-> <<>>]

Init ==
    /\ store = [k \in Keys |-> Absent]
    /\ last = NoLast
    /\ ops = 0

\* One invocation: the method ran on the world state and its writes are committed.
Invoke(op, req, id, r) ==
    /\ ops < MaxOps
    /\ ops' = ops + 1
    /\ store' = r.ctx.store
    /\ last' = [op |-> op, req |-> req, id |-> id, pre |-> store,
                calls |-> r.ctx.calls, err |-> r.err, status |-> r.status,
                asset |-> r.asset, exists |-> r.exists, assets |-> r.assets]

InvokeInitLedger ==
    \E failAt \in FailPoints(Len(SeedAssets)) :
        Invoke("InitLedger", Absent, "", InitLedger(NewCtx(store, failAt)))

InvokeCreateAsset ==
    \E raw \in Requests, failAt \in FailPoints(2) :
        Invoke("CreateAsset", raw, "", CreateAsset(NewCtx(store, failAt), raw))

InvokeReadAsset ==
    \E raw \in Requests, failAt \in FailPoints(1) :
        Invoke("ReadAsset", raw, "", ReadAsset(NewCtx(store, failAt), raw))

InvokeUpdateAsset ==
    \E raw \in Requests, failAt \in FailPoints(2) :
        Invoke("UpdateAsset", raw, "", UpdateAsset(NewCtx(store, failAt), raw))

InvokeDeleteAsset ==
    \E raw \in Requests, failAt \in FailPoints(2) :
        Invoke("DeleteAsset", raw, "", DeleteAsset(NewCtx(store, failAt), raw))

InvokeAssetExists ==
    \E id \in RequestIds \cup {""}, failAt \in FailPoints(1) :
        Invoke("AssetExists", Absent, id, AssetExists(NewCtx(store, failAt), id))

InvokeTransferAsset ==
    \E raw \in Requests, failAt \in FailPoints(3) :
        Invoke("TransferAsset", raw, "", TransferAsset(NewCtx(store, failAt), raw))

InvokeGetAllAssets ==
    \E failAt \in FailPoints(1 + Len(ScanKeys(store, 1))) :
        Invoke("GetAllAssets", Absent, "", GetAllAssets(NewCtx(store, failAt)))

Next ==
    \/ InvokeInitLedger
    \/ InvokeCreateAsset
    \/ InvokeReadAsset
    \/ InvokeUpdateAsset
    \/ InvokeDeleteAsset
    \/ InvokeAssetExists
    \/ InvokeTransferAsset
    \/ InvokeGetAllAssets

\* A value in the namespace that this contract did not write (the ledger of an
\* earlier version of the chaincode): text that is not JSON, or a record whose
\* size is a string.  GetAllAssets and ReadAsset decode whatever is stored.
LegacyKeys == {"asset3"}

LegacyPut ==
    /\ ops = 0
    /\ ops' = ops + 1
    /\ \E k \in LegacyKeys, d \in IllTyped \ {ScalarJSON} :
           /\ store' = [store EXCEPT ![k] = d]
           /\ last' = [NoLast EXCEPT !.op = "LegacyPut", !.pre = store]

NextLegacy == Next \/ LegacyPut

\* The contract on a ledger that may hold one such value.
SpecLegacy == Init /\ [][NextLegacy]_vars

Spec == Init /\ [][Next]_vars

(***************************************************************************)
(* Properties.  Each is stated of the last invocation: its request, the    *)
(* world state before it (last.pre), the stub calls it issued, what it     *)
(* returned, and the world state it left (store).                          *)
(***************************************************************************)
PayloadOps == {"CreateAsset", "ReadAsset", "UpdateAsset", "DeleteAsset", "TransferAsset"}

\* The decoding of the last request.
LastReq == Unmarshal(last.req)

Succeeded(op) == last.op = op /\ last.err = NoErr

\* A GetState of the last invocation returned an error.
GetFailed == \E i \in DOMAIN last.calls : last.calls[i].fn = "GetState" /\ ~last.calls[i].ok

\* The last invocation issued a write.
Wrote == \E i \in DOMAIN last.calls : last.calls[i].fn \in {"PutState", "DelState"}

\* The request ReadAsset takes for an id.
ReadRequest(id) == Obj([n \in {"asset_id"} |-> JString(id)])

\* The record stored under a key.
Record(st, k) == Unmarshal(st[k]).v

\* C1: after CreateAsset(a) succeeds (a.id was absent before), AssetExists(a.id)
\* returns true and ReadAsset(a.id) returns a record equal to a in all five fields.
C1_CreateThenRead ==
    Succeeded("CreateAsset") =>
        LET a == LastReq.v
            e == AssetExists(NewCtx(store, 0), a.ID)
            r == ReadAsset(NewCtx(store, 0), ReadRequest(a.ID))
        IN  /\ last.pre[a.ID] = Absent
            /\ e.err = NoErr /\ e.exists
            /\ r.err = NoErr /\ r.asset = a

C1_Witness ==
    /\ Succeeded("CreateAsset")
    /\ LastReq.v = NewAsset("asset7", "red", 7, "Bob", 900)
    /\ last.pre["asset1"] # Absent

\* C2: CreateAsset on an id already present (created earlier or seeded) fails with
\* AlreadyExists and leaves the world state as it was, whatever the other fields
\* of the request (the check's GetState answering).
C2_DuplicateCreateRejected ==
    (/\ last.op = "CreateAsset"
     /\ LastReq.err = NoErr
     /\ last.pre[LastReq.v.ID] # Absent
     /\ ~GetFailed)
        => /\ last.err = Err("AlreadyExists", LastReq.v.ID)
           /\ last.status = ""
           /\ store = last.pre

C2_Witness ==
    /\ last.op = "CreateAsset"
    /\ last.err.kind = "AlreadyExists"
    /\ last.pre["asset1"] = Marshal(SeedAssets[1])
    /\ LastReq.v = NewAsset("asset1", "red", 7, "Bob", 900)

\* C3: ReadAsset, UpdateAsset, DeleteAsset and TransferAsset on an id for which no
\* record is stored fail with NotFound (the GetState that looks the id up answering).
C3_MissingTargetNotFound ==
    (/\ last.op \in {"ReadAsset", "UpdateAsset", "DeleteAsset", "TransferAsset"}
     /\ LastReq.err = NoErr
     /\ last.pre[LastReq.v.ID] = Absent
     /\ ~GetFailed)
        => last.err = Err("NotFound", LastReq.v.ID)

C3_Witness ==
    /\ last.op = "UpdateAsset"
    /\ last.err = Err("NotFound", "asset7")
    /\ last.pre["asset1"] # Absent

\* C4: after a successful TransferAsset the record under the request's id has the
\* request's owner, and its id, color, size and appraisedValue are those of the
\* record stored before, whatever the request carried for them.
C4_TransferChangesOnlyOwner ==
    Succeeded("TransferAsset") =>
        LET req == LastReq.v
        IN  /\ last.pre[req.ID] # Absent
            /\ store[req.ID] # Absent
            /\ Unmarshal(store[req.ID]).err = NoErr
            /\ Record(store, req.ID) = [Record(last.pre, req.ID) EXCEPT !.Owner = req.Owner]

C4_Witness ==
    /\ Succeeded("TransferAsset")
    /\ LastReq.v = NewAsset("asset1", "red", 7, "Bob", 900)
    /\ Record(last.pre, "asset1") = SeedAssets[1]
    /\ Record(store, "asset1") = NewAsset("asset1", "blue", 5, "Bob", 300)

\* C5: CreateAsset, UpdateAsset, DeleteAsset and TransferAsset write only after
\* their precondition check: every PutState or DelState follows a GetState of the
\* same key that answered, and an invocation that returns AlreadyExists or
\* NotFound issued no PutState or DelState and left the world state unchanged.
C5_CheckBeforeWrite ==
    last.op \in {"CreateAsset", "UpdateAsset", "DeleteAsset", "TransferAsset"} =>
        /\ \A i \in DOMAIN last.calls :
               last.calls[i].fn \in {"PutState", "DelState"} =>
                   \E j \in 1..(i - 1) : last.calls[j] = Call("GetState", last.calls[i].key, TRUE)
        /\ last.err.kind \in {"AlreadyExists", "NotFound"} => (~Wrote /\ store = last.pre)

C5_Witness ==
    /\ last.op = "DeleteAsset"
    /\ last.err = Err("NotFound", "asset7")
    /\ last.calls = <<Call("GetState", "asset7", TRUE)>>
    /\ last.pre["asset1"] # Absent

\* C6: after DeleteAsset(id) succeeds, ReadAsset(id) fails with NotFound and
\* AssetExists(id) returns false; and a key that was absent holds a record again
\* only after a CreateAsset or an InitLedger.
C6_DeletedStaysAbsent ==
    /\ Succeeded("DeleteAsset") =>
           LET id == LastReq.v.ID
               e == AssetExists(NewCtx(store, 0), id)
               r == ReadAsset(NewCtx(store, 0), last.req)
           IN  /\ e.err = NoErr /\ ~e.exists
               /\ r.err = Err("NotFound", id)
    /\ \A k \in Keys :
           (last.pre[k] = Absent /\ store[k] # Absent) => last.op \in {"CreateAsset", "InitLedger"}

C6_Witness ==
    /\ Succeeded("DeleteAsset")
    /\ LastReq.v.ID = "asset1"
    /\ last.pre["asset1"] # Absent
    /\ last.pre["asset7"] # Absent

\* A key that held a record before and after the last invocation, with another owner.
OwnerChanged(k) ==
    /\ last.pre[k] # Absent
    /\ store[k] # Absent
    /\ Record(last.pre, k).Owner # Record(store, k).Owner

\* C7 as claimed: only UpdateAsset or TransferAsset on an id changes the owner
\* stored under it while the asset stays present.
C7_OwnerOnlyByUpdateOrTransfer ==
    \A k \in Keys :
        OwnerChanged(k) => (last.op \in {"UpdateAsset", "TransferAsset"} /\ LastReq.v.ID = k)

\* C7, amended: the owner stored under a present id is changed only by UpdateAsset
\* or TransferAsset on that id, or by InitLedger, which rewrites asset1..asset6
\* with their seed records.
C7_OwnerByUpdateTransferOrInit ==
    \A k \in Keys :
        OwnerChanged(k) =>
            \/ last.op \in {"UpdateAsset", "TransferAsset"} /\ LastReq.v.ID = k
            \/ /\ last.op = "InitLedger"
               /\ k \in SeedIds
               /\ \E i \in 1..Len(SeedAssets) : Record(store, k) = SeedAssets[i]

C7_Witness ==
    /\ Succeeded("TransferAsset")
    /\ OwnerChanged("asset7")
    /\ last.pre["asset1"] # Absent

\* C8: in every reachable world state the record stored under key k decodes and
\* has id k.
C8_IdIsKey ==
    \A k \in Keys :
        store[k] # Absent => (Unmarshal(store[k]).err = NoErr /\ Record(store, k).ID = k)

C8_Witness ==
    /\ Succeeded("TransferAsset")
    /\ store["asset1"] # Absent
    /\ store["asset7"] # Absent
    /\ last.pre # store

\* A document that encodes the Asset schema in full: an object with all five
\* members, each of its type.
IsAssetEncoding(d) ==
    /\ d.kind = "object"
    /\ DOMAIN d.fields = FieldNames
    /\ \A n \in StringFields : d.fields[n].t = "string"
    /\ \A n \in IntFields : d.fields[n].t = "number"

\* A document that is not JSON, is a value other than an object or null, or is an
\* object with a member of the wrong type.
Malformed(d) ==
    \/ d.kind \notin {"object", "null"}
    \/ /\ d.kind = "object"
       /\ \/ \E n \in StringFields \cap DOMAIN d.fields : d.fields[n].t \notin {"string", "null"}
          \/ \E n \in IntFields \cap DOMAIN d.fields : d.fields[n].t \notin {"number", "null"}

\* C9 as claimed: a payload that is not a full, well-typed encoding of the schema
\* (fields missing or mis-typed) fails with DecodeError.
C9_NotAnEncodingFails ==
    (last.op \in PayloadOps /\ ~IsAssetEncoding(last.req)) => last.err.kind = "DecodeError"

\* C9, amended: a payload that is not JSON, is not an object, or has a member of
\* the wrong type fails with DecodeError in all five methods; a payload that only
\* leaves members out is decoded, the fields left out being zero, and the method
\* goes on to consult the world state.
C9_MalformedFails ==
    last.op \in PayloadOps =>
        /\ Malformed(last.req) => last.err.kind = "DecodeError"
        /\ ~Malformed(last.req) =>
               /\ last.calls # <<>>
               /\ last.calls[1] = Call("GetState", LastReq.v.ID, last.calls[1].ok)
               /\ \A n \in FieldNames \ DOMAIN last.req.fields :
                      Marshal(LastReq.v).fields[n] \in {JString(""), JNumber(0)}

C9_Witness ==
    /\ last.op = "TransferAsset"
    /\ last.req.kind = "object"
    /\ Malformed(last.req)
    /\ last.err.kind = "DecodeError"
    /\ last.pre["asset1"] # Absent

\* C10: when the request fails to decode, the method returns the decode error
\* without any stub call (no GetState, PutState, DelState or range scan).
C10_DecodeBeforeStore ==
    (last.op \in PayloadOps /\ LastReq.err # NoErr) =>
        /\ last.err = LastReq.err
        /\ last.calls = <<>>
        /\ store = last.pre

C10_Witness ==
    /\ last.op = "ReadAsset"
    /\ last.req = InvalidJSON
    /\ last.err.kind = "DecodeError"
    /\ last.pre["asset1"] # Absent

\* The listing the seed scenario expects.
SeedListing ==
    << NewAsset("asset1", "blue", 5, "Tomoko", 300),
       NewAsset("asset2", "red", 5, "Brad", 400),
       NewAsset("asset3", "green", 10, "Jin Soo", 500),
       NewAsset("asset4", "yellow", 10, "Max", 600),
       NewAsset("asset5", "black", 15, "Adriana", 700),
       NewAsset("asset6", "white", 15, "Michel", 800) >>

SeedListingIds == {SeedListing[i].ID : i \in 1..Len(SeedListing)}

\* The world state holds no record under a key other than asset1..asset6.
OnlySeedKeys(st) == \A k \in Keys \ SeedListingIds : st[k] = Absent

\* The position of a key in the store's order.
KeyIndex(k) == CHOOSE i \in 1..Len(KeyOrder) : KeyOrder[i] = k

\* C11: InitLedger (on a ledger with no key outside asset1..asset6) followed by
\* GetAllAssets returns exactly the six seed assets asset1..asset6, each with its
\* color, size, owner and appraisedValue, in key order.
C11_SeedThenList ==
    /\ (Succeeded("InitLedger") /\ OnlySeedKeys(last.pre)) =>
           LET r == GetAllAssets(NewCtx(store, 0))
           IN  r.err = NoErr /\ r.assets = SeedListing
    /\ (/\ Succeeded("GetAllAssets")
        /\ OnlySeedKeys(store)
        /\ \A i \in 1..Len(SeedListing) : store[SeedListing[i].ID] = Marshal(SeedListing[i]))
           => last.assets = SeedListing

C11_Witness ==
    /\ Succeeded("GetAllAssets")
    /\ last.assets = SeedListing
    /\ OnlySeedKeys(store)

\* The listing lists the world state: one entry per stored key, the record stored
\* under it, in key order.
Lists(l, st) ==
    /\ Len(l) = Cardinality({k \in Keys : st[k] # Absent})
    /\ \A i \in 1..Len(l) :
           /\ l[i].ID \in Keys
           /\ st[l[i].ID] = Marshal(l[i])
    /\ \A i, j \in 1..Len(l) : i < j => KeyIndex(l[i].ID) < KeyIndex(l[j].ID)

\* C12: after any sequence of operations GetAllAssets returns one entry for each
\* id currently stored (created or seeded and not deleted since, with its latest
\* update or transfer), none for a deleted id, in key order.
C12_ListingReflectsStore ==
    /\ LET r == GetAllAssets(NewCtx(store, 0))
       IN  r.err = NoErr /\ Lists(r.assets, store)
    /\ Succeeded("GetAllAssets") => Lists(last.assets, store)
    /\ Succeeded("DeleteAsset") =>
           \A i \in 1..Len(GetAllAssets(NewCtx(store, 0)).assets) :
               GetAllAssets(NewCtx(store, 0)).assets[i].ID # LastReq.v.ID
    /\ (Succeeded("CreateAsset") \/ Succeeded("UpdateAsset")) =>
           \E i \in 1..Len(GetAllAssets(NewCtx(store, 0)).assets) :
               GetAllAssets(NewCtx(store, 0)).assets[i] = LastReq.v

C12_Witness ==
    /\ Succeeded("GetAllAssets")
    /\ Len(last.assets) = 5
    /\ last.assets[1] = SeedListing[2]
    /\ store["asset1"] = Absent

\* A stored value that does not decode.
Undecodable(st, k) == st[k] # Absent /\ Unmarshal(st[k]).err # NoErr

\* C13: the iterator GetAllAssets obtains is released on every exit path: after
\* the scan is exhausted, after an error from Next, and after a stored value
\* fails to decode; Close is the last stub call of every invocation whose
\* GetStateByRange answered, and is called once.
C13_IteratorClosed ==
    last.op = "GetAllAssets" =>
        LET n == Len(last.calls)
        IN  /\ n >= 1
            /\ last.calls[1].fn = "GetStateByRange"
            /\ \A i \in 2..n : last.calls[i].fn # "GetStateByRange"
            /\ ~last.calls[1].ok => (n = 1 /\ last.err.kind = "StoreError")
            /\ last.calls[1].ok =>
                   /\ last.calls[n].fn = "Close"
                   /\ \A i \in 2..(n - 1) : last.calls[i].fn = "Next"

C13_Witness ==
    /\ last.op = "GetAllAssets"
    /\ last.err.kind = "DecodeError"
    /\ Len(last.calls) = 4
    /\ last.calls[3] = Call("Next", "asset3", TRUE)
    /\ last.calls[4].fn = "Close"

\* C14: when a stored value met by the scan fails to decode, at whatever position,
\* GetAllAssets returns an error and no listing; the error is the decode error
\* unless GetStateByRange or a Next failed before the value was reached (an error
\* of the deferred Close is dropped).
C14_NoPartialListing ==
    /\ (\E k \in Keys : Undecodable(store, k)) =>
           LET r == GetAllAssets(NewCtx(store, 0))
           IN  r.err.kind = "DecodeError" /\ r.assets = <<>>
    /\ (last.op = "GetAllAssets" /\ \E k \in Keys : Undecodable(last.pre, k)) =>
           /\ last.assets = <<>>
           /\ last.err.kind \in {"DecodeError", "StoreError"}
           /\ last.err.kind = "StoreError" <=>
                  (\E i \in DOMAIN last.calls : last.calls[i].fn # "Close" /\ ~last.calls[i].ok)

C14_Witness ==
    /\ last.op = "GetAllAssets"
    /\ last.err.kind = "DecodeError"
    /\ last.assets = <<>>
    /\ Undecodable(store, "asset3")
    /\ ~Undecodable(store, "asset1") /\ store["asset1"] # Absent
    /\ last.calls[2] = Call("Next", "asset1", TRUE)

\* C15: UpdateAsset is a full replace: after it succeeds the stored record equals
\* the decoded request in every field; a field the request omits is stored zero,
\* whatever the record stored before held.
C15_UpdateReplacesAll ==
    Succeeded("UpdateAsset") =>
        LET req == LastReq.v
        IN  /\ last.pre[req.ID] # Absent
            /\ store[req.ID] = Marshal(req)
            /\ Record(store, req.ID) = req
            /\ \A n \in FieldNames \ ({"asset_id"} \cup DOMAIN last.req.fields) :
                   store[req.ID].fields[n] \in {JString(""), JNumber(0)}

C15_Witness ==
    /\ Succeeded("UpdateAsset")
    /\ Record(last.pre, "asset1") = SeedListing[1]
    /\ DOMAIN last.req.fields = {"asset_id"}
    /\ Record(store, "asset1") = NewAsset("asset1", "", 0, "", 0)

\* The field values the round trip is tried on.
StringValues == {"", "asset1", "blue", "Jin Soo", "Bob"}
IntValues == {0, 5, 7, 300, 900}
AssetValues ==
    {NewAsset(id, c, sz, o, v) :
        id \in StringValues, c \in StringValues, sz \in IntValues, o \in StringValues,
        v \in IntValues}

RoundTrip == \A a \in AssetValues : Unmarshal(Marshal(a)) = [err |-> NoErr, v |-> a]

\* The ReadAsset of an id on the world state as it is.
ReadBack(id) == ReadAsset(NewCtx(store, 0), ReadRequest(id))

\* C16: decode(encode(a)) = a for every Asset over the bounded field values, and a
\* record written by CreateAsset, UpdateAsset, TransferAsset or InitLedger is read
\* back by ReadAsset and GetAllAssets with the five field values written.
C16_LosslessSerialization ==
    /\ RoundTrip
    /\ \A k \in Keys : store[k] # Absent =>
           /\ Unmarshal(store[k]).err = NoErr
           /\ Marshal(Record(store, k)) = store[k]
    /\ (Succeeded("CreateAsset") \/ Succeeded("UpdateAsset")) =>
           /\ ReadBack(LastReq.v.ID).asset = LastReq.v
           /\ \E i \in 1..Len(GetAllAssets(NewCtx(store, 0)).assets) :
                  GetAllAssets(NewCtx(store, 0)).assets[i] = LastReq.v
    /\ Succeeded("TransferAsset") =>
           ReadBack(LastReq.v.ID).asset =
               [ReadAsset(NewCtx(last.pre, 0), last.req).asset EXCEPT !.Owner = LastReq.v.Owner]
    /\ Succeeded("InitLedger") =>
           \A i \in 1..Len(SeedListing) : ReadBack(SeedListing[i].ID).asset = SeedListing[i]

C16_Witness ==
    /\ Succeeded("TransferAsset")
    /\ ReadBack("asset7").asset = NewAsset("asset7", "red", 7, "", 900)
    /\ ReadBack("asset1").asset = SeedListing[1]

\* C17: from any world state, after InitLedger succeeds each of asset1..asset6
\* holds its seed record, whatever was stored there, and every other key is
\* unchanged.
C17_InitLedgerOverwrites ==
    Succeeded("InitLedger") =>
        /\ \A i \in 1..Len(SeedListing) : store[SeedListing[i].ID] = Marshal(SeedListing[i])
        /\ \A k \in Keys \ SeedListingIds : store[k] = last.pre[k]

C17_Witness ==
    /\ Succeeded("InitLedger")
    /\ Record(last.pre, "asset1") = NewAsset("asset1", "blue", 5, "Bob", 300)
    /\ Record(store, "asset1") = SeedListing[1]

\* C18: a successful CreateAsset, UpdateAsset, TransferAsset or DeleteAsset on id k
\* leaves the record of every other key unchanged, and ReadAsset, AssetExists and
\* GetAllAssets leave the whole world state unchanged, succeeding or failing.
C18_OnlyTheRequestedKey ==
    /\ (last.op \in {"CreateAsset", "UpdateAsset", "TransferAsset", "DeleteAsset"}
            /\ last.err = NoErr) =>
           /\ \A k \in Keys \ {LastReq.v.ID} : store[k] = last.pre[k]
           /\ \A i \in DOMAIN last.calls : last.calls[i].key = LastReq.v.ID
    /\ last.op \in {"ReadAsset", "AssetExists", "GetAllAssets"} =>
           /\ store = last.pre
           /\ ~Wrote

C18_Witness ==
    /\ Succeeded("TransferAsset")
    /\ LastReq.v.ID = "asset7"
    /\ store["asset7"] # last.pre["asset7"]
    /\ store["asset1"] # Absent

\* A stub call other than the deferred Close returned an error.
StubFailedAt(i) == i \in DOMAIN last.calls /\ last.calls[i].fn # "Close" /\ ~last.calls[i].ok

\* C19: a store error is returned, never recovered: the failing stub call is the
\* last one the method issues (but for the deferred Close) and the method returns
\* a StoreError; when the GetState of the existence check fails in CreateAsset,
\* UpdateAsset, DeleteAsset or TransferAsset, no PutState or DelState is issued;
\* when the k-th PutState of InitLedger fails, the puts of the k-1 seed assets
\* before it were issued, in list order, and none after it.
C19_StoreErrorPropagates ==
    /\ \A i \in DOMAIN last.calls : StubFailedAt(i) =>
           /\ last.err.kind = "StoreError"
           /\ \A j \in DOMAIN last.calls : j > i => last.calls[j].fn = "Close"
    /\ (last.op \in {"CreateAsset", "UpdateAsset", "DeleteAsset", "TransferAsset"}
            /\ StubFailedAt(1)) =>
           /\ last.calls = <<Call("GetState", LastReq.v.ID, FALSE)>>
           /\ last.status = ""
           /\ store = last.pre
    /\ last.op = "InitLedger" =>
           \A k \in 1..Len(SeedListing) : StubFailedAt(k) =>
               /\ Len(last.calls) = k
               /\ \A i \in 1..k : last.calls[i] = Call("PutState", SeedListing[i].ID, i < k)
               /\ \A i \in 1..(k - 1) : store[SeedListing[i].ID] = Marshal(SeedListing[i])
               /\ \A i \in k..Len(SeedListing) : store[SeedListing[i].ID] = last.pre[SeedListing[i].ID]

C19_Witness ==
    /\ last.op = "InitLedger"
    /\ StubFailedAt(3)
    /\ store["asset2"] # Absent
    /\ store["asset3"] = Absent
    /\ last.pre["asset7"] # Absent

\* C20: CreateAsset returns "CreateAsset OK", UpdateAsset "UpdateAsset OK",
\* TransferAsset "TransferAsset OK" and DeleteAsset "CreateAsset OK" when they
\* succeed, and each returns the empty string together with its error.
C20_StatusStrings ==
    /\ Succeeded("CreateAsset") => last.status = "CreateAsset OK"
    /\ Succeeded("UpdateAsset") => last.status = "UpdateAsset OK"
    /\ Succeeded("TransferAsset") => last.status = "TransferAsset OK"
    /\ Succeeded("DeleteAsset") => last.status = "CreateAsset OK"
    /\ (last.op \in {"CreateAsset", "UpdateAsset", "TransferAsset", "DeleteAsset"}
            /\ last.err # NoErr) => last.status = ""

C20_Witness ==
    /\ Succeeded("DeleteAsset")
    /\ last.status = "CreateAsset OK"
    /\ last.pre["asset7"] # Absent
    /\ store["asset7"] = Absent

====
